---- MODULE Spec2Model ----
(***************************************************************************)
(* Model of Simulation/gravitational_potential.py: one call of             *)
(* gravity_potential(m1, m2, m2_orbital_radius, x_points, y_points),       *)
(* statement by statement.                                                 *)
(*                                                                         *)
(* Numbers.  Python floats are modelled by exact real arithmetic extended  *)
(* with the IEEE-754 specials: a number is a record [k, s] with            *)
(* k in {"fin", "inf", "ninf", "nan"} and, for k = "fin", s a canonical    *)
(* sum of surds: a set of triples <<f, n, d>> standing for                 *)
(* SUM (n/d) * sqrt(f), f a squarefree positive integer, n/d a reduced     *)
(* non-zero fraction, at most one triple per f.  Square roots of distinct  *)
(* squarefree integers are linearly independent over the rationals, so two *)
(* such sums denote the same real number iff they are the same set.        *)
(* Rounding is not modelled.                                               *)
(***************************************************************************)
EXTENDS Integers, Sequences, FiniteSets, TLC

\* ---------------------------------------------------------------- rationals
Abs(a) == IF a < 0 THEN -a ELSE a

RECURSIVE GCD(_, _)
GCD(a, b) == IF b = 0 THEN a ELSE GCD(b, a % b)

\* the reduced fraction n/d with positive denominator (d # 0)
Rat(n, d) ==
    LET g == GCD(Abs(n), Abs(d))
        sg == IF d < 0 THEN -1 ELSE 1
    IN  <<(sg * n) \div g, (sg * d) \div g>>

RAdd(a, b) == Rat(a[1] * b[2] + b[1] * a[2], a[2] * b[2])
RMul(a, b) == Rat(a[1] * b[1], a[2] * b[2])

\* ------------------------------------------------------------ sums of surds
\* the largest k <= from with k*k dividing n (n > 0)
RECURSIVE SquarePart(_, _)
SquarePart(n, from) ==
    IF from <= 1 THEN 1
    ELSE IF from * from <= n /\ n % (from * from) = 0 THEN from
    ELSE SquarePart(n, from - 1)

RECURSIVE ISqrtUp(_, _)
ISqrtUp(n, k) == IF k * k >= n THEN k ELSE ISqrtUp(n, k + 1)

\* n = k*k*f with f squarefree: <<k, f>>
SquareFree(n) ==
    LET k == SquarePart(n, ISqrtUp(n, 1)) IN <<k, n \div (k * k)>>

SCoef(s, f) ==
    IF \E t \in s : t[1] = f
    THEN LET t == CHOOSE u \in s : u[1] = f IN <<t[2], t[3]>>
    ELSE <<0, 1>>

STerm(f, r) == IF r[1] = 0 THEN {} ELSE {<<f, r[1], r[2]>>}

SRat(r) == STerm(1, r)

SAdd(a, b) ==
    UNION {STerm(f, RAdd(SCoef(a, f), SCoef(b, f))) : f \in {t[1] : t \in a \cup b}}

SNeg(a) == {<<t[1], -t[2], t[3]>> : t \in a}

\* (n1/d1)sqrt(f) * (n2/d2)sqrt(g) = (n1 n2 c / d1 d2) sqrt(f g / c^2), c = gcd(f, g)
STermMul(t, u) ==
    LET c == GCD(t[1], u[1])
    IN  STerm((t[1] * u[1]) \div (c * c), Rat(t[2] * u[2] * c, t[3] * u[3]))

RECURSIVE SSum(_)
SSum(S) ==
    IF S = {} THEN {}
    ELSE LET p == CHOOSE q \in S : TRUE
         IN  SAdd(STermMul(p[1], p[2]), SSum(S \ {p}))

SMul(a, b) == SSum(a \X b)

\* sign of a sum with at most one term
SSign(a) ==
    IF a = {} THEN 0
    ELSE LET t == CHOOSE u \in a : TRUE IN IF t[2] > 0 THEN 1 ELSE -1

\* sqrt(p/q) for p/q > 0 reduced: (kp / (kq fq)) sqrt(fp fq)
SSqrtRat(r) ==
    LET p == SquareFree(r[1])
        q == SquareFree(r[2])
    IN  STerm(p[2] * q[2], Rat(p[1], q[1] * q[2]))

\* 1 / ((n/d) sqrt(f)) = (d / (n f)) sqrt(f)
SInvTerm(t) == STerm(t[1], Rat(t[3], t[2] * t[1]))

\* ------------------------------------------------- floats (IEEE-754 specials)
Fin(s) == [k |-> "fin", s |-> s]
Inf == [k |-> "inf", s |-> {}]
NInf == [k |-> "ninf", s |-> {}]
NaN == [k |-> "nan", s |-> {}]

\* the float of the fraction n/d
Num(n, d) == Fin(SRat(Rat(n, d)))

FSign(a) ==
    CASE a.k = "fin" -> SSign(a.s)
      [] a.k = "inf" -> 1
      [] a.k = "ninf" -> -1

Signed(sg) == IF sg = 0 THEN NaN ELSE IF sg > 0 THEN Inf ELSE NInf

FNeg(a) ==
    CASE a.k = "fin" -> Fin(SNeg(a.s))
      [] a.k = "inf" -> NInf
      [] a.k = "ninf" -> Inf
      [] a.k = "nan" -> NaN

FAdd(a, b) ==
    CASE a.k = "nan" \/ b.k = "nan" -> NaN
      [] a.k = "fin" /\ b.k = "fin" -> Fin(SAdd(a.s, b.s))
      [] a.k = "fin" -> b
      [] b.k = "fin" -> a
      [] OTHER -> IF a.k = b.k THEN a ELSE NaN

FSub(a, b) == FAdd(a, FNeg(b))

FMul(a, b) ==
    CASE a.k = "nan" \/ b.k = "nan" -> NaN
      [] a.k = "fin" /\ b.k = "fin" -> Fin(SMul(a.s, b.s))
      [] OTHER -> Signed(FSign(a) * FSign(b))

\* a / b as numpy's true_divide computes it on array elements: no exception,
\* x/0 is +-inf, 0/0 is nan.  A finite divisor is a single surd term here
\* (every divisor in the program is the square root of a rational).
FDiv(a, b) ==
    CASE a.k = "nan" \/ b.k = "nan" -> NaN
      [] b.k = "fin" /\ b.s = {} -> Signed(FSign(a))
      [] b.k = "fin" /\ a.k = "fin" /\ Cardinality(b.s) = 1 ->
            Fin(SMul(a.s, SInvTerm(CHOOSE t \in b.s : TRUE)))
      [] b.k = "fin" /\ a.k # "fin" /\ Cardinality(b.s) = 1 -> Signed(FSign(a) * FSign(b))
      [] b.k # "fin" /\ a.k = "fin" -> Fin({})
      [] b.k # "fin" /\ a.k # "fin" -> NaN

\* sqrt of a float; a finite argument is rational here (a sum of squares of
\* rationals, or (m1 + m2) / R^3).  A negative argument gives nan, no exception.
FSqrt(a) ==
    CASE a.k = "nan" \/ a.k = "ninf" -> NaN
      [] a.k = "inf" -> Inf
      [] a.k = "fin" /\ a.s = {} -> Fin({})
      [] a.k = "fin" /\ a.s # {} /\ \A t \in a.s : t[1] = 1 ->
            LET r == SCoef(a.s, 1)
            IN  IF r[1] < 0 THEN NaN ELSE Fin(SSqrtRat(r))

\* a ** n for a natural exponent n >= 1
RECURSIVE FPow(_, _)
FPow(a, n) == IF n = 1 THEN a ELSE FMul(a, FPow(a, n - 1))

\* Python's comparisons on floats: any comparison with nan is false
FLe(a, b) == a.k # "nan" /\ b.k # "nan" /\ (a = b \/ FSign(FSub(b, a)) > 0)
FGt(a, b) == a.k # "nan" /\ b.k # "nan" /\ a # b /\ FSign(FSub(a, b)) > 0

Zero == Num(0, 1)

\* ------------------------------------------------------------------- arrays
\* a 2-D array is a sequence of rows of equal length
Shape(A) == <<Len(A), Len(A[1])>>

\* numpy's broadcasting of two shapes, dimension by dimension
DimCompatible(p, q) == p = q \/ p = 1 \/ q = 1
Broadcastable(s, t) == DimCompatible(s[1], t[1]) /\ DimCompatible(s[2], t[2])
BroadcastDim(p, q) == IF p = 1 THEN q ELSE p
BroadcastShape(s, t) == <<BroadcastDim(s[1], t[1]), BroadcastDim(s[2], t[2])>>

\* the index read in a dimension of length n for output index i
BIndexFirst(n, i) == 1
BIndex(n, i) == IF n = 1 THEN 1 ELSE i

At(A, i, j) == A[BIndex(Len(A), i)][BIndex(Len(A[1]), j)]

\* ------------------------------------------------------------ the call's inputs
\* greatest number of rows and of columns of an input array
MaxDim == 2

Masses == {Num(-1, 1), Zero, Num(1, 2), Num(1, 1), Num(2, 1)}
Radii == {Num(-1, 1), Zero, Num(1, 1), Num(2, 1)}
Coords == {Num(-1, 5), Zero, Num(1, 5)}

\* numpy.linspace(lo, hi, n): n evenly spaced samples, both ends included
linspace(lo, hi, n) ==
    [k \in 1..n |-> IF n = 1 THEN lo ELSE FAdd(lo, FMul(FSub(hi, lo), Num(k - 1, n - 1)))]

\* numpy.meshgrid(xs, ys): <<X, Y>>, both of shape (len(ys), len(xs))
meshgrid(xs, ys) ==
    << [i \in 1..Len(ys) |-> [j \in 1..Len(xs) |-> xs[j]]],
       [i \in 1..Len(ys) |-> [j \in 1..Len(xs) |-> ys[i]]] >>

\* ------------------------------------------------------------------ the state
VARIABLES
    pc,                      \* the statement about to run, or "returned" / "raised"
    m1, m2,                  \* arguments: the two masses
    m2_orbital_radius,       \* argument: the orbital radius
    x_points, y_points,      \* arguments: the coordinate arrays
    omega,                   \* local, None until assigned
    gravitational_potential, \* local, None until assigned
    result,                  \* the value returned to the caller, None if none
    raised                   \* the exceptions that left the function, in order

vars == <<pc, m1, m2, m2_orbital_radius, x_points, y_points, omega,
          gravitational_potential, result, raised>>

None == [k |-> "none"]

gravitational_constant == 1

\* the guards, in the order of the source text
GuardOrderM2First == <<"guard_m2", "guard_m1", "guard_ratio">>
GuardOrder == <<"guard_m1", "guard_m2", "guard_ratio">>

Statements == GuardOrder \o <<"omega", "potential", "return">>

NextStatement(p) ==
    Statements[(CHOOSE i \in 1..Len(Statements) : Statements[i] = p) + 1]

\* an exception: its type, the literal text of its message and the values
\* interpolated into the message
Exception(type, text, values) == [type |-> type, text |-> text, values |-> values]

M1Text == "The value of m1 was non-positive"
M2TextCopied == "The value of m1 was non-positive"
M2Text == "The value of m2 was non-positive"
RatioText == " The ratio of m2 to m1 was greater than 1"

Raise(e) ==
    /\ pc' = "raised"
    /\ raised' = Append(raised, e)
    /\ UNCHANGED <<omega, gravitational_potential, result>>

Pass ==
    /\ pc' = NextStatement(pc)
    /\ UNCHANGED <<omega, gravitational_potential, result, raised>>

Args == <<m1, m2, m2_orbital_radius, x_points, y_points>>

\* the call: any masses and radius; each array is cut from a mesh of its own
\* size over one common coordinate range, as main builds its grid
Init ==
    /\ pc = Statements[1]
    /\ m1 \in Masses
    /\ m2 \in Masses
    /\ m2_orbital_radius \in Radii
    /\ \E lo \in Coords, hi \in Coords :
          /\ \E rows \in 1..MaxDim, cols \in 1..MaxDim :
                x_points = meshgrid(linspace(lo, hi, cols), linspace(lo, hi, rows))[1]
          /\ \E rows \in 1..MaxDim, cols \in 1..MaxDim :
                y_points = meshgrid(linspace(lo, hi, cols), linspace(lo, hi, rows))[2]
    /\ omega = None
    /\ gravitational_potential = None
    /\ result = None
    /\ raised = <<>>

\* ------------------------------------------------------------- the statements
NonPositiveStrict(m) == FLe(m, Zero) /\ m # Zero
NonPositive(m) == FLe(m, Zero)

RatioAboveOneOrEqual(a, b) == FGt(b, a) \/ b = a
RatioAboveOne(a, b) == FGt(b, a)

\* if m1 <= 0: raise ValueError(...)
GuardM1 ==
    /\ pc = "guard_m1"
    /\ IF NonPositive(m1) THEN Raise(Exception("ValueError", M1Text, <<>>)) ELSE Pass
    /\ UNCHANGED Args

\* if m2 <= 0: raise ValueError(...)
GuardM2 ==
    /\ pc = "guard_m2"
    /\ IF NonPositive(m2) THEN Raise(Exception("ValueError", M2Text, <<>>)) ELSE Pass
    /\ UNCHANGED Args

\* if m2 > m1: raise ValueError(...)
GuardRatio ==
    /\ pc = "guard_ratio"
    /\ IF RatioAboveOne(m1, m2) THEN Raise(Exception("ValueError", RatioText, <<>>)) ELSE Pass
    /\ UNCHANGED Args

\* omega = sqrt(gravitational_constant * (m1 + m2) / m2_orbital_radius**3)
\* a scalar division: a zero divisor raises ZeroDivisionError
Omega ==
    /\ pc = "omega"
    /\ LET cube == FPow(m2_orbital_radius, 3)
           top == FMul(Num(gravitational_constant, 1), FAdd(m1, m2))
       IN  IF cube = Zero
           THEN Raise(Exception("ZeroDivisionError", "division by zero", <<>>))
           ELSE /\ omega' = FSqrt(FDiv(top, cube))
                /\ pc' = NextStatement(pc)
                /\ UNCHANGED <<gravitational_potential, result, raised>>
    /\ UNCHANGED Args

Square(v) == FPow(v, 2)

\* the sub-expression y_points**2, at one element
YTermLinear(y) == y
YTerm(y) == Square(y)

\* the right-hand side of the assignment to gravitational_potential, at the
\* element whose coordinates are x and y
PotentialAt(a1, a2, R, om, x, y) ==
    LET w == FMul(FNeg(Num(1, 2)), FPow(om, 2))
        G == Num(gravitational_constant, 1)
        centrifugal == FMul(w, FAdd(Square(x), YTerm(y)))
        c1 == FDiv(FMul(a2, R), FAdd(a1, a2))
        c2 == FDiv(FMul(a1, R), FAdd(a1, a2))
        d1 == FSqrt(FAdd(Square(FSub(c1, x)), YTerm(y)))
        d2 == FSqrt(FAdd(Square(FAdd(c2, x)), YTerm(y)))
    IN  FSub(centrifugal, FMul(G, FAdd(FDiv(a2, d1), FDiv(a2, d2))))

\* the array expression: one fused element-wise loop over the broadcast shape
Potential(a1, a2, R, om, X, Y) ==
    LET sh == BroadcastShape(Shape(X), Shape(Y))
    IN  [i \in 1..sh[1] |-> [j \in 1..sh[2] |->
            PotentialAt(a1, a2, R, om, At(X, i, j), At(Y, i, j))]]

\* gravitational_potential = -0.5 * (omega ** 2) * (x_points ** 2 + y_points ** 2) - ...
\* arrays that do not broadcast against each other raise ValueError
PotentialStep ==
    /\ pc = "potential"
    /\ IF ~Broadcastable(Shape(x_points), Shape(y_points))
       THEN Raise(Exception("ValueError", "unable to broadcast argument 1 to output array", <<>>))
       ELSE /\ gravitational_potential' =
                  Potential(m1, m2, m2_orbital_radius, omega, x_points, y_points)
            /\ pc' = NextStatement(pc)
            /\ UNCHANGED <<omega, result, raised>>
    /\ UNCHANGED Args

\* return gravitational_potential
Return ==
    /\ pc = "return"
    /\ result' = gravitational_potential
    /\ pc' = "returned"
    /\ UNCHANGED <<omega, gravitational_potential, raised>>
    /\ UNCHANGED Args

Next == GuardM1 \/ GuardM2 \/ GuardRatio \/ Omega \/ PotentialStep \/ Return

Spec == Init /\ [][Next]_vars

\* ======================================================================
\* Properties
\* ======================================================================
Returned == pc = "returned"
Terminated == pc \in {"returned", "raised"}

Positive(a) == FGt(a, Zero)
ValidMasses == Positive(m1) /\ Positive(m2) /\ FLe(m2, m1)
ValidConfig == ValidMasses /\ Positive(m2_orbital_radius)
SameShape == Shape(x_points) = Shape(y_points)

IsFinite(a) == a.k = "fin"

\* Python's == on floats: false when either side is nan
FEq(a, b) == a.k # "nan" /\ b.k # "nan" /\ a = b

Cells(A) == {<<i, j>> : i \in 1..Len(A), j \in 1..Len(A[1])}

NamesM1(e) == e.type = "ValueError" /\ e.text = "The value of m1 was non-positive"
NamesM2(e) == e.type = "ValueError" /\ e.text = "The value of m2 was non-positive"
NamesRatio(e) == e.type = "ValueError" /\ e.text = " The ratio of m2 to m1 was greater than 1"

\* the value the function computes on the one-element grid [[x]], [[y]]
OnPoint(x, y) ==
    Potential(m1, m2, m2_orbital_radius, omega, <<<<x>>>>, <<<<y>>>>)[1][1]

\* the documented potential: primary (m1) at -m2 R/(m1+m2), secondary (m2) at
\* +m1 R/(m1+m2), each 1/d term weighted by its own mass
PrimaryX == FNeg(FDiv(FMul(m2, m2_orbital_radius), FAdd(m1, m2)))
SecondaryX == FDiv(FMul(m1, m2_orbital_radius), FAdd(m1, m2))

OnBody(x, y) == y = Zero /\ (x = PrimaryX \/ x = SecondaryX)

DocumentedPhi(x, y) ==
    LET w2 == FDiv(FAdd(m1, m2), FPow(m2_orbital_radius, 3))
        d1 == FSqrt(FAdd(Square(FSub(x, PrimaryX)), Square(y)))
        d2 == FSqrt(FAdd(Square(FSub(x, SecondaryX)), Square(y)))
    IN  FSub(FSub(FMul(FMul(FNeg(Num(1, 2)), w2), FAdd(Square(x), Square(y))),
                  FDiv(m1, d1)),
             FDiv(m2, d2))

\* C1: for a valid configuration, the field at every grid point that is not
\* on a body equals -0.5 w^2 (x^2+y^2) - m1/d1 - m2/d2 with the primary at
\* -m2 R/(m1+m2) and the secondary at +m1 R/(m1+m2); for m1 = 2, m2 = 0.5,
\* R = 1 the value at (0, 0) is -10.625.
C1_DocumentedFormula ==
    (Returned /\ ValidConfig /\ SameShape) =>
        \A c \in Cells(result) :
            LET x == x_points[c[1]][c[2]]
                y == y_points[c[1]][c[2]]
            IN  /\ ~OnBody(x, y) => result[c[1]][c[2]] = DocumentedPhi(x, y)
                /\ (m1 = Num(2, 1) /\ m2 = Num(1, 2) /\ m2_orbital_radius = Num(1, 1)
                      /\ x = Zero /\ y = Zero) => result[c[1]][c[2]] = Num(-85, 8)

\* C2: whenever m1 <= 0 or m2 <= 0 the call never gets past the guards, ends
\* in a non-positive-mass error and returns no field.
C2_NonPositiveMassRejected ==
    (FLe(m1, Zero) \/ FLe(m2, Zero)) =>
        /\ pc \in {"guard_m1", "guard_m2", "guard_ratio", "raised"}
        /\ result = None /\ gravitational_potential = None
        /\ Terminated =>
              /\ pc = "raised" /\ Len(raised) = 1
              /\ NamesM1(raised[1]) \/ NamesM2(raised[1])

C2_Witness ==
    /\ pc = "raised" /\ Positive(m1) /\ m2 = Zero /\ Positive(m2_orbital_radius)
    /\ NamesM2(raised[1])

\* C3: whenever both masses are positive and m2 > m1 the call ends in the
\* mass-ratio error and returns no field; m2 = m1 is not rejected by it.
C3_RatioRejected ==
    /\ (Positive(m1) /\ Positive(m2) /\ FGt(m2, m1)) =>
          /\ pc \in {"guard_m1", "guard_m2", "guard_ratio", "raised"}
          /\ result = None /\ gravitational_potential = None
          /\ Terminated => (pc = "raised" /\ Len(raised) = 1 /\ NamesRatio(raised[1]))
    /\ (Positive(m1) /\ m2 = m1) =>
          /\ \A k \in 1..Len(raised) : ~NamesRatio(raised[k])
          /\ pc # "guard_m1" /\ pc # "guard_m2" /\ pc # "guard_ratio" =>
                pc \in {"omega", "potential", "return", "returned"} \/ raised # <<>>

C3_Witness ==
    /\ pc = "raised" /\ m1 = Num(1, 1) /\ m2 = Num(2, 1) /\ NamesRatio(raised[1])

\* C4: whenever orbitalRadius <= 0, even with valid masses, the call is
\* rejected with a validation error before any field value is computed and no
\* field is returned.
C4_RadiusRejected ==
    (ValidMasses /\ FLe(m2_orbital_radius, Zero)) =>
        /\ gravitational_potential = None /\ result = None
        /\ Terminated => (pc = "raised" /\ Len(raised) = 1 /\ raised[1].type = "ValueError")

\* C5: a field is never returned for a grid whose two coordinate arrays have
\* different shapes: the call is rejected before the field is computed.
C5_ShapeMismatchRejected ==
    ~SameShape => (gravitational_potential = None /\ result = None /\ pc # "returned")

C7_SingularExactlyOnBodies ==
    (Returned /\ ValidConfig /\ SameShape) =>
        \A c \in Cells(result) :
            LET x == x_points[c[1]][c[2]]
                y == y_points[c[1]][c[2]]
            IN  IF OnBody(x, y) THEN result[c[1]][c[2]] = NInf
                ELSE IsFinite(result[c[1]][c[2]])

Offender(e) == IF NamesM1(e) THEN m1 ELSE IF NamesM2(e) THEN m2 ELSE FDiv(m2, m1)

\* C8 (as claimed): every validation error carries the offending value: the
\* mass that was non-positive, or the ratio m2/m1.
C8_CarriesValues ==
    (pc = "raised" /\ ~ValidMasses) =>
        \E k \in 1..Len(raised[1].values) : raised[1].values[k] = Offender(raised[1])

\* C8 (amended): every validation error names the check that failed in a
\* fixed message (m1 non-positive; m2 non-positive with m1 positive; m2 > m1
\* with both positive) and carries no value.
C8_NamesCheckOnly ==
    (pc = "raised" /\ ~ValidMasses) =>
        /\ raised[1].values = <<>>
        /\ FLe(m1, Zero) <=> NamesM1(raised[1])
        /\ (Positive(m1) /\ FLe(m2, Zero)) <=> NamesM2(raised[1])
        /\ (Positive(m1) /\ Positive(m2) /\ FGt(m2, m1)) <=> NamesRatio(raised[1])

C8_Witness ==
    /\ pc = "raised" /\ NamesM2(raised[1]) /\ m2 = Num(-1, 1) /\ raised[1].values = <<>>

\* C9: reflection symmetry: for a valid configuration the value computed at
\* (x, y) equals the value computed at (x, -y).
C9_ReflectionSymmetry ==
    (Returned /\ ValidConfig) =>
        /\ \A c \in Cells(result) :
              FEq(result[c[1]][c[2]],
                  OnPoint(At(x_points, c[1], c[2]), FNeg(At(y_points, c[1], c[2]))))
        /\ \A c \in Cells(result), d \in Cells(result) :
              (/\ At(x_points, c[1], c[2]) = At(x_points, d[1], d[2])
               /\ At(y_points, c[1], c[2]) = FNeg(At(y_points, d[1], d[2])))
                  => FEq(result[c[1]][c[2]], result[d[1]][d[2]])

C9_Witness ==
    /\ Returned /\ ValidConfig /\ m1 # m2 /\ Shape(result) = <<2, 1>>
    /\ At(y_points, 1, 1) = Num(1, 5) /\ At(y_points, 2, 1) = Num(-1, 5)
    /\ At(x_points, 1, 1) = Num(1, 5) /\ At(x_points, 2, 1) = Num(1, 5)
    /\ IsFinite(result[1][1]) /\ result[1][1] = result[2][1]

\* C10: the guards run in the order m1 <= 0, m2 <= 0, m2 > m1 and the first
\* that fires decides the error: with m1 <= 0 the error names m1 whatever m2
\* is, the ratio error needs both masses positive, and a rejected call
\* reports exactly one error.
C10_GuardOrder ==
    /\ Len(raised) <= 1
    /\ pc = "raised" <=> Len(raised) = 1
    /\ pc = "guard_m2" => Positive(m1)
    /\ pc = "guard_ratio" => (Positive(m1) /\ Positive(m2))
    /\ pc = "raised" =>
          /\ FLe(m1, Zero) => NamesM1(raised[1])
          /\ NamesM2(raised[1]) => Positive(m1)
          /\ NamesRatio(raised[1]) => (Positive(m1) /\ Positive(m2))

C10_Witness ==
    /\ pc = "raised" /\ FLe(m1, Zero) /\ FLe(m2, Zero) /\ NamesM1(raised[1])
    /\ Len(raised) = 1

====
